---------------------------- MODULE Spec2Model ----------------------------
(***************************************************************************)
(* Model of spider_um.py: the sequential pipeline that parses aggTrades    *)
(* archive URLs, fetches and extracts them, aggregates the trades into     *)
(* klines and publishes raw and aggregated tables to the dataset hub,      *)
(* skipping paths present in the listing taken at startup.                 *)
(*                                                                         *)
(* Strings are sequences of one-character strings, so that substring       *)
(* tests, split, join and replace are computed as Python computes them.    *)
(***************************************************************************)
EXTENDS Integers, Sequences, FiniteSets, TLC

VARIABLES
    urls,       \* urls (line 152): the lines of the URL file, as indices into UrlPool
    files,      \* files (line 16): the listing of the hub taken at startup
    remote,     \* the paths present in the hub repository
    local,      \* the complete parquet files on the local disk
    partial,    \* the truncated files left on the local disk by a failed sink
    n,          \* position of the for loop of line 153 in urls (0 before the first)
    pc,         \* the statement of the driver that runs next
    k,          \* position of the for loop of line 139 in process_interval
    exc,        \* the exception in flight, caught at line 156
    errorLog,   \* the entries of error.log
    logBase,    \* the length of error.log when this run started
    run,        \* the number of the run (process invocation)
    events,     \* history: what this run did, in order
    prevEvents, \* history: the events of the previous run
    rows,       \* the trade rows given to join_to_interval, in file order
    every,      \* the interval given to join_to_interval (index in process_interval)
    klines      \* the result of join_to_interval

vars == <<urls, files, remote, local, partial, n, pc, k, exc, errorLog,
          logBase, run, events, prevEvents, rows, every, klines>>

pipelineVars == <<urls, files, remote, local, partial, n, pc, k, exc, errorLog,
                  logBase, run, events, prevEvents>>

aggVars == <<rows, every, klines>>

----------------------------------------------------------------------------
(* Bounds *)

MaxUrls == 2

MaxRerunUrls == 1

MaxRuns == 2

MaxRows == 2

----------------------------------------------------------------------------
(* Python string operations *)

Max2(a, b) == IF a >= b THEN a ELSE b

\* s[p : p + len(sub)] == sub
MatchAt(s, sub, p) ==
    /\ p + Len(sub) - 1 <= Len(s)
    /\ \A j \in 1..Len(sub) : s[p + j - 1] = sub[j]

\* sub in s
Contains(s, sub) == \E p \in 1..(Len(s) - Len(sub) + 1) : MatchAt(s, sub, p)

\* s.endswith(suf)
EndsWith(s, suf) ==
    /\ Len(s) >= Len(suf)
    /\ SubSeq(s, Len(s) - Len(suf) + 1, Len(s)) = suf

RECURSIVE Split(_, _)
\* s.split(sep) for a one-character sep
Split(s, sep) ==
    IF \A p \in 1..Len(s) : s[p] # sep
    THEN <<s>>
    ELSE LET p == CHOOSE q \in 1..Len(s) :
                      /\ s[q] = sep
                      /\ \A r \in 1..(q - 1) : s[r] # sep
         IN  <<SubSeq(s, 1, p - 1)>> \o Split(SubSeq(s, p + 1, Len(s)), sep)

RECURSIVE Join(_, _)
\* sep.join(parts)
Join(parts, sep) ==
    IF Len(parts) = 0 THEN <<>>
    ELSE IF Len(parts) = 1 THEN parts[1]
    ELSE parts[1] \o <<sep>> \o Join(Tail(parts), sep)

RECURSIVE Remove(_, _)
\* s.replace(old, "")
Remove(s, old) ==
    IF Len(s) < Len(old) THEN s
    ELSE IF MatchAt(s, old, 1)
         THEN Remove(SubSeq(s, Len(old) + 1, Len(s)), old)
         ELSE <<s[1]>> \o Remove(Tail(s), old)

\* parts[-1]
Last(parts) == parts[Len(parts)]

\* parts[-2:]
LastTwo(parts) == SubSeq(parts, Max2(1, Len(parts) - 1), Len(parts))

----------------------------------------------------------------------------
(* Literals of the source and the URLs of the URL file *)

Marker_aggTrades ==
    <<"a", "g", "g", "T", "r", "a", "d", "e", "s">>

Marker_futures ==
    <<"f", "u", "t", "u", "r", "e", "s">>

Marker_monthly ==
    <<"m", "o", "n", "t", "h", "l", "y">>

QuoteSuffix ==
    <<"U", "S", "D", "T">>

ZipExt ==
    <<".", "z", "i", "p">>

Url_BTC ==
    <<"d", "a", "t", "a", "/", "f", "u", "t", "u", "r", "e", "s", "/", "u",
      "m", "/", "m", "o", "n", "t", "h", "l", "y", "/", "a", "g", "g", "T",
      "r", "a", "d", "e", "s", "/", "B", "T", "C", "U", "S", "D", "T", "/",
      "B", "T", "C", "U", "S", "D", "T", "-", "a", "g", "g", "T", "r", "a",
      "d", "e", "s", "-", "2", "0", "2", "4", "-", "0", "1", ".", "z", "i",
      "p">>

Url_ETH ==
    <<"d", "a", "t", "a", "/", "f", "u", "t", "u", "r", "e", "s", "/", "u",
      "m", "/", "m", "o", "n", "t", "h", "l", "y", "/", "a", "g", "g", "T",
      "r", "a", "d", "e", "s", "/", "E", "T", "H", "U", "S", "D", "T", "/",
      "E", "T", "H", "U", "S", "D", "T", "-", "a", "g", "g", "T", "r", "a",
      "d", "e", "s", "-", "2", "0", "2", "4", "-", "0", "2", ".", "z", "i",
      "p">>

Url_Spot ==
    <<"d", "a", "t", "a", "/", "s", "p", "o", "t", "/", "m", "o", "n", "t",
      "h", "l", "y", "/", "a", "g", "g", "T", "r", "a", "d", "e", "s", "/",
      "B", "T", "C", "U", "S", "D", "T", "/", "B", "T", "C", "U", "S", "D",
      "T", "-", "a", "g", "g", "T", "r", "a", "d", "e", "s", "-", "2", "0",
      "2", "4", "-", "0", "1", ".", "z", "i", "p">>

Url_Daily ==
    <<"d", "a", "t", "a", "/", "f", "u", "t", "u", "r", "e", "s", "/", "u",
      "m", "/", "d", "a", "i", "l", "y", "/", "a", "g", "g", "T", "r", "a",
      "d", "e", "s", "/", "B", "T", "C", "U", "S", "D", "T", "/", "B", "T",
      "C", "U", "S", "D", "T", "-", "a", "g", "g", "T", "r", "a", "d", "e",
      "s", "-", "2", "0", "2", "4", "-", "0", "1", "-", "0", "5", ".", "z",
      "i", "p">>

Url_Klines ==
    <<"d", "a", "t", "a", "/", "f", "u", "t", "u", "r", "e", "s", "/", "u",
      "m", "/", "m", "o", "n", "t", "h", "l", "y", "/", "k", "l", "i", "n",
      "e", "s", "/", "B", "T", "C", "U", "S", "D", "T", "/", "1", "m", "/",
      "B", "T", "C", "U", "S", "D", "T", "-", "1", "m", "-", "2", "0", "2",
      "4", "-", "0", "1", ".", "z", "i", "p">>

Url_CoinM ==
    <<"d", "a", "t", "a", "/", "f", "u", "t", "u", "r", "e", "s", "/", "c",
      "m", "/", "m", "o", "n", "t", "h", "l", "y", "/", "a", "g", "g", "T",
      "r", "a", "d", "e", "s", "/", "B", "T", "C", "U", "S", "D", "_", "P",
      "E", "R", "P", "/", "B", "T", "C", "U", "S", "D", "_", "P", "E", "R",
      "P", "-", "a", "g", "g", "T", "r", "a", "d", "e", "s", "-", "2", "0",
      "2", "4", "-", "0", "1", ".", "z", "i", "p">>

UrlPool == <<Url_BTC, Url_ETH, Url_Spot, Url_Daily, Url_Klines, Url_CoinM>>

process_interval == <<"1m", "5m", "15m", "30m", "1h">>

----------------------------------------------------------------------------
(* parse_url and the output paths *)

ValueError(text, arg) == [type |-> "ValueError", text |-> text, arg |-> arg]

NoExc == [type |-> "none", text |-> "", arg |-> <<>>]

\* parse_url without the test of line 31
parse_url_NoMonthlyTest(url) ==
    IF ~Contains(url, Marker_aggTrades)
    THEN [ok |-> FALSE, error |-> ValueError("URL does not contain 'aggTrades'", <<>>)]
    ELSE IF ~Contains(url, Marker_futures)
    THEN [ok |-> FALSE, error |-> ValueError("URL does not contain 'futures'", <<>>)]
    ELSE LET file_name == Last(Split(url, "/"))
             symbol    == Split(file_name, "-")[1]
             month_str == Remove(Join(LastTwo(Split(file_name, "-")), "-"), ZipExt)
         IN  IF ~EndsWith(symbol, QuoteSuffix)
             THEN [ok |-> FALSE,
                   error |-> ValueError("Parse failed, Symbol does not end with 'USDT'",
                                        symbol)]
             ELSE [ok |-> TRUE, url |-> url, file_name |-> file_name,
                   symbol |-> symbol, month_str |-> month_str]

parse_url(url) ==
    IF ~Contains(url, Marker_aggTrades)
    THEN [ok |-> FALSE, error |-> ValueError("URL does not contain 'aggTrades'", <<>>)]
    ELSE IF ~Contains(url, Marker_futures)
    THEN [ok |-> FALSE, error |-> ValueError("URL does not contain 'futures'", <<>>)]
    ELSE IF ~Contains(url, Marker_monthly)
    THEN [ok |-> FALSE, error |-> ValueError("URL does not contain 'monthly'", <<>>)]
    ELSE LET file_name == Last(Split(url, "/"))
             symbol    == Split(file_name, "-")[1]
             month_str == Remove(Join(LastTwo(Split(file_name, "-")), "-"), ZipExt)
         IN  IF ~EndsWith(symbol, QuoteSuffix)
             THEN [ok |-> FALSE,
                   error |-> ValueError("Parse failed, Symbol does not end with 'USDT'",
                                        symbol)]
             ELSE [ok |-> TRUE, url |-> url, file_name |-> file_name,
                   symbol |-> symbol, month_str |-> month_str]

\* The pieces of the f-string, in order.  symbol and month_str come from the
\* text after the last "/" of the URL, so the pieces determine the string.
get_kline_out_path(symbol, month_str, interval) ==
    <<"klines/interval=", interval, "/symbol=", symbol, "/month=", month_str,
      "/data.parquet">>

get_agg_trade_out_path(symbol, month_str) ==
    <<"agg_trades/symbol=", symbol, "/month=", month_str, "/data.parquet">>

\* out_path of process_one_url: the raw path (j = 0, line 132) or the path of
\* the j-th interval (lines 142-144)
OutPath(parse_res, j) ==
    IF j = 0
    THEN get_agg_trade_out_path(parse_res.symbol, parse_res.month_str)
    ELSE get_kline_out_path(parse_res.symbol, parse_res.month_str,
                            process_interval[j])

Url(m) == UrlPool[urls[m]]

\* parse_url of every URL of the pool
ParsedPool == [u \in 1..Len(UrlPool) |-> parse_url(UrlPool[u])]

\* parse_res of process_one_url(urls[m]) (line 131)
ParseRes(m) == ParsedPool[urls[m]]

----------------------------------------------------------------------------
(* The run: startup and the driver loop *)

HTTPError == [type |-> "HTTPError", text |-> "requests.get failed", arg |-> <<>>]

BadZipFile == [type |-> "BadZipFile", text |-> "archive has no readable entry", arg |-> <<>>]

ComputeError == [type |-> "ComputeError", text |-> "sink_parquet failed", arg |-> <<>>]

HfHubHTTPError == [type |-> "HfHubHTTPError", text |-> "upload_file failed", arg |-> <<>>]

Event(step, j, res) == [n |-> n, step |-> step, k |-> j, res |-> res]

\* The hub listings a run can start from: empty, or one month of BTCUSDT
\* published up to the second interval beside a lone 1m kline file of ETHUSDT.
Listings ==
    LET btc == parse_url(Url_BTC)
        eth == parse_url(Url_ETH)
    IN  { {},
          {OutPath(btc, j) : j \in 0..2} \cup {OutPath(eth, 1)} }

\* What error.log can hold when a run starts: nothing, or an entry of an
\* earlier run.  An entry names its URL as urls does, by its index in UrlPool.
\* The field n of an entry is a ghost: the position in urls of the URL the
\* entry was written for.
OldLogs ==
    { <<>>,
      <<[n |-> 1, url |-> 3,
         error |-> ValueError("URL does not contain 'futures'", <<>>)]>> }

UrlFiles(max) == UNION { [1..len -> 1..Len(UrlPool)] : len \in 0..max }

InitAgg ==
    /\ rows = <<>>
    /\ every = 0
    /\ klines = [status |-> "none", out |-> <<>>]

InitRun(max) ==
    /\ urls \in UrlFiles(max)
    /\ remote \in Listings
    /\ files = remote
    /\ local = {}
    /\ partial = {}
    /\ n = 0
    /\ pc = "loop"
    /\ k = 0
    /\ exc = NoExc
    /\ errorLog \in OldLogs
    /\ logBase = Len(errorLog)
    /\ run = 1
    /\ events = <<>>
    /\ prevEvents = <<>>
    /\ InitAgg

Init == InitRun(MaxUrls)

\* for url in urls (line 153), entering the try of line 154
NextUrl ==
    /\ pc = "loop"
    /\ n < Len(urls)
    /\ n' = n + 1
    /\ pc' = "parse"
    /\ events' = Append(events, [n |-> n + 1, step |-> "start", k |-> 0, res |-> "ok"])
    /\ UNCHANGED <<urls, files, remote, local, partial, k, exc, errorLog,
                   logBase, run, prevEvents, aggVars>>

\* the loop of line 153 is exhausted: the process exits
Finish ==
    /\ pc = "loop"
    /\ n = Len(urls)
    /\ pc' = "done"
    /\ UNCHANGED <<urls, files, remote, local, partial, n, k, exc, errorLog,
                   logBase, run, events, prevEvents, aggVars>>

\* parse_res = parse_url(url) (line 131)
Parse ==
    /\ pc = "parse"
    /\ LET parse_res == ParseRes(n)
       IN  IF parse_res.ok
           THEN /\ pc' = "check"
                /\ exc' = exc
                /\ events' = Append(events, Event("parse", 0, "ok"))
           ELSE /\ pc' = "except"
                /\ exc' = parse_res.error
                /\ events' = Append(events, Event("parse", 0, "raise"))
    /\ UNCHANGED <<urls, files, remote, local, partial, n, k, errorLog,
                   logBase, run, prevEvents, aggVars>>

\* process_one_url without the return of line 135
CheckRawExists_NoReturn ==
    /\ pc = "check"
    /\ pc' = "fetch"
    /\ events' = Append(events, Event("check", 0, "ok"))
    /\ UNCHANGED <<urls, files, remote, local, partial, n, k, exc, errorLog,
                   logBase, run, prevEvents, aggVars>>

\* if out_path in files: return (lines 132-135)
CheckRawExists ==
    /\ pc = "check"
    /\ LET out_path == OutPath(ParseRes(n), 0)
       IN  IF out_path \in files
           THEN /\ pc' = "loop"
                /\ events' = Append(events, Event("check", 0, "return"))
           ELSE /\ pc' = "fetch"
                /\ events' = Append(events, Event("check", 0, "ok"))
    /\ UNCHANGED <<urls, files, remote, local, partial, n, k, exc, errorLog,
                   logBase, run, prevEvents, aggVars>>

\* content = download_zip_file(url) (line 136, lines 48-53)
download_zip_file ==
    /\ pc = "fetch"
    /\ \/ /\ pc' = "extract"
          /\ exc' = exc
          /\ events' = Append(events, Event("fetch", 0, "ok"))
       \/ /\ pc' = "except"
          /\ exc' = HTTPError
          /\ events' = Append(events, Event("fetch", 0, "raise"))
    /\ UNCHANGED <<urls, files, remote, local, partial, n, k, errorLog,
                   logBase, run, prevEvents, aggVars>>

\* process_one_url going from line 137 to the loop of line 139, without the
\* call of line 138
content_to_lf_ThenIntervals ==
    /\ pc = "extract"
    /\ \/ /\ pc' = "interval"
          /\ k' = 1
          /\ exc' = exc
          /\ events' = Append(events, Event("extract", 0, "ok"))
       \/ /\ pc' = "except"
          /\ k' = k
          /\ exc' = BadZipFile
          /\ events' = Append(events, Event("extract", 0, "raise"))
    /\ UNCHANGED <<urls, files, remote, local, partial, n, errorLog,
                   logBase, run, prevEvents, aggVars>>

\* lf = content_to_lf(content) (line 137, lines 56-73)
content_to_lf ==
    /\ pc = "extract"
    /\ \/ /\ pc' = "publish_raw"
          /\ exc' = exc
          /\ events' = Append(events, Event("extract", 0, "ok"))
       \/ /\ pc' = "except"
          /\ exc' = BadZipFile
          /\ events' = Append(events, Event("extract", 0, "raise"))
    /\ UNCHANGED <<urls, files, remote, local, partial, n, k, errorLog,
                   logBase, run, prevEvents, aggVars>>

\* upload_to_hf without the test of lines 108-110
upload_to_hf_NoSkip(out_path, j) ==
    \/ /\ exc' = ComputeError
       /\ events' = Append(events, Event("publish", j, "sink_failed"))
       /\ UNCHANGED <<remote, local, partial>>
    \/ /\ exc' = HfHubHTTPError
       /\ events' = Append(events, Event("publish", j, "upload_failed"))
       /\ local' = local \cup {out_path}
       /\ partial' = partial \ {out_path}
       /\ UNCHANGED remote
    \/ /\ exc' = exc
       /\ events' = Append(events, Event("publish", j, "uploaded"))
       /\ remote' = remote \cup {out_path}
       /\ local' = local \ {out_path}
       /\ partial' = partial \ {out_path}

\* upload_to_hf without the os.remove of line 126
upload_to_hf_KeepsFile(out_path, j) ==
    \/ /\ out_path \in files
       /\ exc' = exc
       /\ events' = Append(events, Event("publish", j, "skipped"))
       /\ UNCHANGED <<remote, local, partial>>
    \/ /\ out_path \notin files
       /\ exc' = HfHubHTTPError
       /\ events' = Append(events, Event("publish", j, "upload_failed"))
       /\ local' = local \cup {out_path}
       /\ partial' = partial \ {out_path}
       /\ UNCHANGED remote
    \/ /\ out_path \notin files
       /\ exc' = exc
       /\ events' = Append(events, Event("publish", j, "uploaded"))
       /\ remote' = remote \cup {out_path}
       /\ local' = local \cup {out_path}
       /\ partial' = partial \ {out_path}

\* upload_to_hf(out_path, lf, symbol, month_str) with skip_exist=True
\* (lines 107-127), called for the j-th output of the URL
upload_to_hf(out_path, j) ==
    \/ /\ out_path \in files                       \* line 108: skip and return
       /\ exc' = exc
       /\ events' = Append(events, Event("publish", j, "skipped"))
       /\ UNCHANGED <<remote, local, partial>>
    \/ /\ out_path \notin files                    \* line 116 raises, no file made
       /\ exc' = ComputeError
       /\ events' = Append(events, Event("publish", j, "sink_failed"))
       /\ UNCHANGED <<remote, local, partial>>
    \/ /\ out_path \notin files                    \* line 116 raises, file cut short
       /\ exc' = ComputeError
       /\ events' = Append(events, Event("publish", j, "sink_truncated"))
       /\ local' = local \ {out_path}
       /\ partial' = partial \cup {out_path}
       /\ UNCHANGED remote
    \/ /\ out_path \notin files                    \* line 117 raises
       /\ exc' = HfHubHTTPError
       /\ events' = Append(events, Event("publish", j, "upload_failed"))
       /\ local' = local \cup {out_path}
       /\ partial' = partial \ {out_path}
       /\ UNCHANGED remote
    \/ /\ out_path \notin files                    \* lines 116-126 all succeed
       /\ exc' = exc
       /\ events' = Append(events, Event("publish", j, "uploaded"))
       /\ remote' = remote \cup {out_path}
       /\ local' = local \ {out_path}
       /\ partial' = partial \ {out_path}

\* upload_to_hf(out_path, lf, ...) for the raw table (line 138)
PublishRaw ==
    /\ pc = "publish_raw"
    /\ upload_to_hf(OutPath(ParseRes(n), 0), 0)
    /\ IF exc' = NoExc
       THEN pc' = "interval" /\ k' = 1
       ELSE pc' = "except" /\ k' = k
    /\ UNCHANGED <<urls, files, n, errorLog, logBase, run, prevEvents, aggVars>>

\* the loop of lines 139-145 with each pass in a try of its own: a failed
\* interval is passed over
PublishInterval_PassesOver ==
    /\ pc = "interval"
    /\ upload_to_hf(OutPath(ParseRes(n), k), k)
    /\ IF k < Len(process_interval)
       THEN pc' = "interval" /\ k' = k + 1
       ELSE IF exc' # NoExc
            THEN pc' = "except" /\ k' = k
            ELSE pc' = "loop" /\ k' = k
    /\ UNCHANGED <<urls, files, n, errorLog, logBase, run, prevEvents, aggVars>>

\* one pass of the loop of lines 139-145: aggregate and publish interval k
PublishInterval ==
    /\ pc = "interval"
    /\ upload_to_hf(OutPath(ParseRes(n), k), k)
    /\ IF exc' # NoExc
       THEN pc' = "except" /\ k' = k
       ELSE IF k < Len(process_interval)
            THEN pc' = "interval" /\ k' = k + 1
            ELSE pc' = "loop" /\ k' = k
    /\ UNCHANGED <<urls, files, n, errorLog, logBase, run, prevEvents, aggVars>>

\* the try of line 154 around the whole loop: the first exception ends the run
Handler_EndsRun ==
    /\ pc = "except"
    /\ errorLog' = Append(errorLog, [n |-> n, url |-> urls[n], error |-> exc])
    /\ exc' = NoExc
    /\ pc' = "done"
    /\ UNCHANGED <<urls, files, remote, local, partial, n, k, logBase, run,
                   events, prevEvents, aggVars>>

\* error.log opened with "w" at line 158
Handler_Overwrites ==
    /\ pc = "except"
    /\ errorLog' = <<[n |-> n, url |-> urls[n], error |-> exc]>>
    /\ exc' = NoExc
    /\ pc' = "loop"
    /\ UNCHANGED <<urls, files, remote, local, partial, n, k, logBase, run,
                   events, prevEvents, aggVars>>

\* except Exception as e: append to error.log (lines 156-159)
Handler ==
    /\ pc = "except"
    /\ errorLog' = Append(errorLog, [n |-> n, url |-> urls[n], error |-> exc])
    /\ exc' = NoExc
    /\ pc' = "loop"
    /\ UNCHANGED <<urls, files, remote, local, partial, n, k, logBase, run,
                   events, prevEvents, aggVars>>

\* the script is started again on the same URL file: lines 15-16 take a new
\* listing of the hub
Rerun ==
    /\ pc = "done"
    /\ run < MaxRuns
    /\ run' = run + 1
    /\ files' = remote
    /\ n' = 0
    /\ pc' = "loop"
    /\ k' = 0
    /\ logBase' = Len(errorLog)
    /\ prevEvents' = events
    /\ events' = <<>>
    /\ UNCHANGED <<urls, remote, local, partial, exc, errorLog, aggVars>>

Next ==
    \/ NextUrl
    \/ Finish
    \/ Parse
    \/ CheckRawExists
    \/ download_zip_file
    \/ content_to_lf
    \/ PublishRaw
    \/ PublishInterval
    \/ Handler

Spec == Init /\ [][Next]_vars

FairSpec == Init /\ [][Next]_vars /\ WF_vars(Next)

InitRerun == InitRun(MaxRerunUrls)

NextRerun == Next \/ Rerun

SpecRerun == InitRerun /\ [][NextRerun]_vars

----------------------------------------------------------------------------
(* join_to_interval *)

\* polars reads "1m", "5m", "15m", "30m", "1h" as this many milliseconds
IntervalMs == <<60000, 300000, 900000, 1800000, 3600000>>

\* The trade rows of a table: prices and quantities are small integers, the
\* trade id ranges and the times are chosen so that rows can share a window,
\* straddle the 1m boundary, and carry ids out of row order.
Prices == {1, 2}

Quantities == {1, 2}

TradeIdRanges == {<<1, 2>>, <<3, 3>>}

Times == {0, 59999, 60000}

RowValues ==
    { [price |-> p, quantity |-> q, first_trade_id |-> ids[1],
       last_trade_id |-> ids[2], transact_time |-> t, is_buyer_maker |-> b] :
      p \in Prices, q \in Quantities, ids \in TradeIdRanges, t \in Times,
      b \in BOOLEAN }

Tables(max) == UNION { [1..len -> RowValues] : len \in 0..max }

RECURSIVE Sum(_)
Sum(s) == IF s = <<>> THEN 0 ELSE s[1] + Sum(Tail(s))

Column(lf, name) == [j \in 1..Len(lf) |-> lf[j][name]]

MaxOf(s) == CHOOSE x \in {s[j] : j \in 1..Len(s)} : \A j \in 1..Len(s) : s[j] <= x

MinOf(s) == CHOOSE x \in {s[j] : j \in 1..Len(s)} : \A j \in 1..Len(s) : x <= s[j]

\* the start of the left-closed window of width w, anchored at the epoch,
\* that holds time t
WindowStart(t, w) == (t \div w) * w

IsSorted(lf) ==
    \A i, j \in 1..Len(lf) : i < j => lf[i].transact_time <= lf[j].transact_time

RECURSIVE Ascending(_)
\* the numbers of a finite set in ascending order
Ascending(S) ==
    IF S = {} THEN <<>>
    ELSE LET lo == CHOOSE x \in S : \A y \in S : x <= y
         IN  <<lo>> \o Ascending(S \ {lo})

\* the aggregation with open and close exchanged (lines 85 and 88)
Kline_OpenLast(g, start, interval) ==
    LET is_taker == [j \in 1..Len(g) |-> IF g[j].is_buyer_maker THEN 0 ELSE 1]
    IN  [datetime   |-> start,
         open       |-> g[Len(g)].price,
         high       |-> MaxOf(Column(g, "price")),
         low        |-> MinOf(Column(g, "price")),
         close      |-> g[1].price,
         volume     |-> Sum(Column(g, "quantity")),
         quote_volume |-> Sum([j \in 1..Len(g) |-> g[j].quantity * g[j].price]),
         num_trades |-> g[Len(g)].last_trade_id - g[1].first_trade_id + 1,
         taker_buy_volume |-> Sum([j \in 1..Len(g) |-> g[j].quantity * is_taker[j]]),
         taker_buy_quote_volume |->
             Sum([j \in 1..Len(g) |-> g[j].quantity * g[j].price * is_taker[j]]),
         interval   |-> interval]

\* the aggregation of lines 80-93 over the rows g of one window, in row
\* order, and the tag of line 95
Kline(g, start, interval) ==
    LET is_taker == [j \in 1..Len(g) |-> IF g[j].is_buyer_maker THEN 0 ELSE 1]
    IN  [datetime   |-> start,
         open       |-> g[1].price,
         high       |-> MaxOf(Column(g, "price")),
         low        |-> MinOf(Column(g, "price")),
         close      |-> g[Len(g)].price,
         volume     |-> Sum(Column(g, "quantity")),
         quote_volume |-> Sum([j \in 1..Len(g) |-> g[j].quantity * g[j].price]),
         num_trades |-> g[Len(g)].last_trade_id - g[1].first_trade_id + 1,
         taker_buy_volume |-> Sum([j \in 1..Len(g) |-> g[j].quantity * is_taker[j]]),
         taker_buy_quote_volume |->
             Sum([j \in 1..Len(g) |-> g[j].quantity * g[j].price * is_taker[j]]),
         interval   |-> interval]

\* join_to_interval(lf, interval) for rows sorted by transact_time: one row
\* for each window that holds a trade, in window order (lines 76-96)
join_to_interval(lf, i) ==
    LET w      == IntervalMs[i]
        starts == Ascending({WindowStart(lf[j].transact_time, w) : j \in 1..Len(lf)})
    IN  [b \in 1..Len(starts) |->
            Kline(SelectSeq(lf, LAMBDA r : WindowStart(r.transact_time, w) = starts[b]),
                  starts[b], process_interval[i])]

NoKlines == [status |-> "none", out |-> <<>>]

\* The table is aggregated at one of the five intervals.  group_by_dynamic
\* needs its index column sorted: on an unsorted column polars either raises
\* or returns rows it does not specify.
JoinToInterval ==
    /\ pc = "aggregate"
    /\ klines = NoKlines
    /\ \E i \in 1..Len(process_interval) :
          /\ every' = i
          /\ IF IsSorted(rows)
             THEN klines' = [status |-> "ok", out |-> join_to_interval(rows, i)]
             ELSE \/ klines' = [status |-> "error", out |-> <<>>]
                  \/ klines' = [status |-> "unspecified", out |-> <<>>]
    /\ UNCHANGED <<pipelineVars, rows>>

InitJoin ==
    /\ rows \in Tables(MaxRows)
    /\ every = 0
    /\ klines = NoKlines
    /\ urls = <<>>
    /\ remote = {}
    /\ files = {}
    /\ local = {}
    /\ partial = {}
    /\ n = 0
    /\ pc = "aggregate"
    /\ k = 0
    /\ exc = NoExc
    /\ errorLog = <<>>
    /\ logBase = 0
    /\ run = 1
    /\ events = <<>>
    /\ prevEvents = <<>>

NextJoin == JoinToInterval

SpecJoin == InitJoin /\ [][NextJoin]_vars

----------------------------------------------------------------------------
(* What a run did, read from its history *)

EventsOf(m) == SelectSeq(events, LAMBDA e : e.n = m)

Starts == SelectSeq(events, LAMBDA e : e.step = "start")

Raised(e) == e.res \in {"raise", "sink_failed", "sink_truncated", "upload_failed"}

Failed(m) == \E j \in 1..Len(events) : events[j].n = m /\ Raised(events[j])

\* process_one_url has returned or raised for the m-th URL and the handler, if
\* any, has run
Finished(m) == m < n \/ (m = n /\ pc \in {"loop", "done"})

PathOf(e) == OutPath(ParseRes(e.n), e.k)

\* the publish calls of this run, in order, each with its out_path
Publishes ==
    LET calls == SelectSeq(events, LAMBDA e : e.step = "publish")
    IN  [j \in 1..Len(calls) |-> [path |-> PathOf(calls[j]), res |-> calls[j].res]]

\* the calls of log on path p whose result is in results
On2(log, results) == SelectSeq(log, LAMBDA c : c.res \in results)

On(log, p, results) == SelectSeq(log, LAMBDA c : c.path = p /\ c.res \in results)

PathsOf(log) == {log[j].path : j \in 1..Len(log)}

RunLog == SubSeq(errorLog, logBase + 1, Len(errorLog))

LoggedFor(m) == SelectSeq(RunLog, LAMBDA l : l.n = m)

\* the exception the failing step of the m-th URL raised
RaisedBy(m) ==
    LET e == CHOOSE x \in {events[j] : j \in 1..Len(events)} : x.n = m /\ Raised(x)
    IN  CASE e.step = "parse"   -> ParseRes(m).error
          [] e.step = "fetch"   -> HTTPError
          [] e.step = "extract" -> BadZipFile
          [] e.res = "upload_failed" -> HfHubHTTPError
          [] OTHER -> ComputeError

RECURSIVE FailedUpTo(_)
\* the failed URLs among the first m, in list order
FailedUpTo(m) ==
    IF m = 0 THEN <<>>
    ELSE IF Failed(m) /\ Finished(m)
         THEN Append(FailedUpTo(m - 1), m)
         ELSE FailedUpTo(m - 1)

----------------------------------------------------------------------------
(* C1 *)

StartedInListOrder ==
    /\ Len(Starts) = n
    /\ \A j \in 1..Len(Starts) : Starts[j].n = j

\* C1 (fault isolation): whatever steps fail, the driver starts every URL of
\* the list exactly once and in list order, a failed URL is followed by the
\* start of the next one, and the run ends after the last URL.
C1_FaultIsolation ==
    /\ [](StartedInListOrder)
    /\ [](pc = "done" => Len(Starts) = Len(urls))
    /\ [](\A m \in 1..n : (Failed(m) /\ m = n /\ m < Len(urls)) => pc # "done")
    /\ <>(pc = "done")

\* a run that ended although its first URL failed, with a later URL started
C1_Witness ==
    /\ pc = "done"
    /\ Len(urls) >= 2
    /\ Failed(1)
    /\ \E j \in 1..Len(events) : events[j].n = 2 /\ events[j].step = "start"

----------------------------------------------------------------------------
(* C2 *)

\* C2 as stated (publish idempotence within one run): two publish calls on
\* the same path that both return perform the upload exactly once, and the
\* second of them is a no-op.
C2_UploadOncePerRun ==
    LET log == Publishes
    IN  \A p \in PathsOf(log) :
            LET returned == On(log, p, {"skipped", "uploaded"})
            IN  Len(returned) >= 2 =>
                    /\ Len(On(log, p, {"uploaded"})) = 1
                    /\ returned[2].res = "skipped"

\* C2, amended: a publish call is a no-op exactly when its path is in the
\* listing taken at startup; a path outside the listing is uploaded again by
\* every call that returns, and the hub holds the listing plus the uploads.
C2_SkipFollowsListing ==
    LET log == Publishes
    IN  /\ \A j \in 1..Len(log) : (log[j].path \in files) <=> (log[j].res = "skipped")
        /\ \A p \in PathsOf(log) :
              Len(On(log, p, {"uploaded"})) =
                  IF p \in files THEN 0 ELSE Len(On(log, p, {"skipped", "uploaded"}))
        /\ remote = files \cup PathsOf(On2(log, {"uploaded"}))

\* the same path uploaded twice in one run, and a call skipped by the listing
C2_Witness ==
    LET log == Publishes
    IN  /\ \E p \in PathsOf(log) : Len(On(log, p, {"uploaded"})) = 2
        /\ \E j \in 1..Len(log) : log[j].res = "skipped"

----------------------------------------------------------------------------
(* C3 *)

RawListed(m) ==
    /\ ParseRes(m).ok
    /\ OutPath(ParseRes(m), 0) \in files

\* C3 (skip scenario): for a URL whose raw path is in the startup listing,
\* process_one_url returns after the check: no fetch, no extract, no publish
\* call, no exception and no error.log entry.
C3_SkipWhenRawListed ==
    \A m \in 1..n :
        RawListed(m) =>
            LET ev == EventsOf(m)
            IN  /\ \A j \in 1..Len(ev) : ev[j].step \in {"start", "parse", "check"}
                /\ \A j \in 1..Len(ev) : ~Raised(ev[j])
                /\ LoggedFor(m) = <<>>
                /\ ~(m = n /\ pc \in {"fetch", "extract", "publish_raw", "interval",
                                      "except"})
                /\ Finished(m) => ev[Len(ev)].res = "return"

C3_Witness ==
    \E m \in 1..n : RawListed(m) /\ Finished(m) /\ m < n

----------------------------------------------------------------------------
(* C4 *)

\* the URL lacks a marker, or the text before the first "-" of its file name
\* does not end with the quote suffix
Ineligible(url) ==
    \/ ~Contains(url, Marker_aggTrades)
    \/ ~Contains(url, Marker_futures)
    \/ ~Contains(url, Marker_monthly)
    \/ ~EndsWith(Split(Last(Split(url, "/")), "-")[1], QuoteSuffix)

IneligiblePool == {u \in 1..Len(UrlPool) : Ineligible(UrlPool[u])}

\* C4: for a URL that lacks a marker or whose symbol lacks the quote suffix,
\* parse_url raises ValueError, and the run makes no fetch and no publish call
\* for it.
C4_IneligibleUrlNoNetwork ==
    \A m \in 1..n :
        urls[m] \in IneligiblePool =>
            LET ev == EventsOf(m)
                logged == LoggedFor(m)
            IN  /\ ~ParseRes(m).ok
                /\ ParseRes(m).error.type = "ValueError"
                /\ \A j \in 1..Len(ev) : ev[j].step \in {"start", "parse"}
                /\ Finished(m) =>
                      /\ ev[Len(ev)].res = "raise"
                      /\ Len(logged) = 1
                      /\ logged[1].error.type = "ValueError"

\* each kind of ineligible URL was processed
C4_Witness ==
    /\ pc = "done"
    /\ \E m \in 1..n : ~Contains(Url(m), Marker_monthly)
    /\ \E m \in 1..n :
          /\ Contains(Url(m), Marker_aggTrades)
          /\ Contains(Url(m), Marker_futures)
          /\ Contains(Url(m), Marker_monthly)
          /\ urls[m] \in IneligiblePool

----------------------------------------------------------------------------
(* C6 *)

ExpectedLog ==
    [j \in 1..Len(FailedUpTo(n)) |->
        [n |-> FailedUpTo(n)[j],
         url |-> urls[FailedUpTo(n)[j]],
         error |-> RaisedBy(FailedUpTo(n)[j])]]

\* C6 (error log): error.log only grows, and the entries a run appends are one
\* (url, message) entry for each URL whose processing raised, in list order,
\* and none for the URLs that completed or were skipped.
C6_ErrorLog ==
    /\ [](RunLog = ExpectedLog)
    /\ [][/\ Len(errorLog') >= Len(errorLog)
          /\ SubSeq(errorLog', 1, Len(errorLog)) = errorLog]_vars

\* a finished run over an older log, with a failed and a clean URL
C6_Witness ==
    /\ pc = "done"
    /\ logBase > 0
    /\ Len(RunLog) = 1
    /\ Len(urls) = 2
    /\ Failed(2)
    /\ \E j \in 1..Len(events) : events[j].n = 1 /\ events[j].res = "uploaded"

----------------------------------------------------------------------------
(* C7 *)

AnyResult ==
    {"skipped", "sink_failed", "sink_truncated", "upload_failed", "uploaded"}

\* the results that write to the local disk
Writing == {"sink_truncated", "upload_failed", "uploaded"}

\* the last call of log on path p with a result in results ("none" if none)
LastOn(log, p, results) ==
    LET on == On(log, p, results)
    IN  IF on = <<>> THEN "none" ELSE on[Len(on)].res

----------------------------------------------------------------------------
(* C9 *)

\* C9 (no partial resume inside one URL): once the publish of interval j of a
\* URL raises, the processing of that URL makes no further publish call, the
\* URL gets exactly one error.log entry, and the raw table and the intervals
\* it uploaded before stay in the hub.
C9_NoPartialResume ==
    \A m \in 1..n :
        LET ev == EventsOf(m)
        IN  \A j \in 1..Len(ev) :
                (ev[j].step = "publish" /\ ev[j].k >= 1 /\ Raised(ev[j])) =>
                    /\ j = Len(ev)
                    /\ Finished(m) => Len(LoggedFor(m)) = 1
                    /\ Len(LoggedFor(m)) <= 1
                    /\ \A i \in 1..(j - 1) :
                          ev[i].res = "uploaded" => PathOf(ev[i]) \in remote
                    /\ \E i \in 1..(j - 1) : ev[i].k = 0 /\ ev[i].res = "uploaded"

\* the third interval of the first URL failed and the run went on to the end
C9_Witness ==
    /\ pc = "done"
    /\ n = 2
    /\ \E j \in 1..Len(events) :
          events[j].n = 1 /\ events[j].k = 3 /\ Raised(events[j])

----------------------------------------------------------------------------
(* C10 *)

\* the place of a step in parse, check, fetch, extract, publish raw, publish
\* 1m, 5m, 15m, 30m, 1h
StepRank(e) ==
    CASE e.step = "start"   -> 1
      [] e.step = "parse"   -> 2
      [] e.step = "check"   -> 3
      [] e.step = "fetch"   -> 4
      [] e.step = "extract" -> 5
      [] e.step = "publish" -> 6 + e.k

\* C10 (per-URL ordering): the steps of one URL occur in the order parse, raw
\* check, fetch, extract, publish raw, publish 1m .. 1h, none out of turn, and
\* a kline file is uploaded only after the raw file of the same URL was
\* uploaded earlier in the processing of that URL.
C10_StepOrder ==
    \A m \in 1..n :
        LET ev == EventsOf(m)
        IN  /\ \A j \in 1..Len(ev) : StepRank(ev[j]) = j
            /\ \A j \in 1..Len(ev) :
                  (ev[j].k >= 1 /\ ev[j].res = "uploaded") =>
                      \E i \in 1..(j - 1) :
                          /\ ev[i].step = "publish"
                          /\ ev[i].k = 0
                          /\ ev[i].res = "uploaded"

\* a URL went through all eleven steps, the 1m kline skipped by the listing
C10_Witness ==
    \E m \in 1..n :
        LET ev == EventsOf(m)
        IN  /\ Len(ev) = 11
            /\ ev[7].res = "skipped"
            /\ ev[11].res = "uploaded"

----------------------------------------------------------------------------
(* C5 *)

\* in the previous run the m-th URL had its raw table uploaded and the
\* publish of one of its intervals raised
PartialBefore(m) ==
    /\ \E j \in 1..Len(prevEvents) :
          /\ prevEvents[j].n = m
          /\ prevEvents[j].k = 0
          /\ prevEvents[j].res = "uploaded"
    /\ \E j \in 1..Len(prevEvents) :
          /\ prevEvents[j].n = m
          /\ prevEvents[j].k >= 1
          /\ Raised(prevEvents[j])

\* C5 (resume on rerun): when a URL whose raw table was uploaded and one of
\* whose interval publishes raised in the previous run is processed again
\* and nothing raises, the run fetched and extracted it again and all five
\* interval files of the URL are in the hub.
C5_ResumeOnRerun ==
    \A m \in 1..n :
        (run >= 2 /\ PartialBefore(m) /\ Finished(m) /\ ~Failed(m)) =>
            /\ \E j \in 1..Len(events) : events[j].n = m /\ events[j].step = "fetch"
            /\ \E j \in 1..Len(events) : events[j].n = m /\ events[j].step = "extract"
            /\ \A j \in 1..Len(process_interval) : OutPath(ParseRes(m), j) \in remote

----------------------------------------------------------------------------
(* C8 *)

OneWindow(lf, i) ==
    /\ lf # <<>>
    /\ \A a, b \in 1..Len(lf) :
          WindowStart(lf[a].transact_time, IntervalMs[i]) =
              WindowStart(lf[b].transact_time, IntervalMs[i])

\* the prices of the rows with the earliest and with the latest transact_time
FirstPrices(lf) ==
    {lf[a].price : a \in {b \in 1..Len(lf) :
        lf[b].transact_time = MinOf(Column(lf, "transact_time"))}}

LastPrices(lf) ==
    {lf[a].price : a \in {b \in 1..Len(lf) :
        lf[b].transact_time = MaxOf(Column(lf, "transact_time"))}}

IdSpan(lf) ==
    MaxOf(Column(lf, "last_trade_id")) - MinOf(Column(lf, "first_trade_id")) + 1

IdsAscend(lf) ==
    /\ \A a \in 1..Len(lf) : lf[1].first_trade_id <= lf[a].first_trade_id
    /\ \A a \in 1..Len(lf) : lf[a].last_trade_id <= lf[Len(lf)].last_trade_id

\* C8 as stated (aggregation correctness): for rows in one window, open and
\* close are the first and last price in transact_time order, high and low
\* the maximum and minimum price, volume the sum of the quantities, and
\* num_trades is max last_trade_id - min first_trade_id + 1.
C8_AggregationAsStated ==
    (klines.status = "ok" /\ OneWindow(rows, every)) =>
        /\ Len(klines.out) = 1
        /\ klines.out[1].open \in FirstPrices(rows)
        /\ klines.out[1].close \in LastPrices(rows)
        /\ klines.out[1].high = MaxOf(Column(rows, "price"))
        /\ klines.out[1].low = MinOf(Column(rows, "price"))
        /\ klines.out[1].volume = Sum(Column(rows, "quantity"))
        /\ klines.out[1].num_trades = IdSpan(rows)

\* C8, amended: for rows in nondecreasing transact_time order in one window,
\* open and close are the price of the first and of the last row, high and
\* low the maximum and minimum price, volume the sum of the quantities, and
\* num_trades is the last row's last_trade_id minus the first row's
\* first_trade_id plus 1, which is max last_trade_id - min first_trade_id + 1
\* when the first row holds the least first_trade_id and the last row the
\* greatest last_trade_id.
C8_AggregationInRowOrder ==
    (klines.status = "ok" /\ OneWindow(rows, every)) =>
        /\ IsSorted(rows)
        /\ Len(klines.out) = 1
        /\ klines.out[1].open = rows[1].price
        /\ klines.out[1].open \in FirstPrices(rows)
        /\ klines.out[1].close = rows[Len(rows)].price
        /\ klines.out[1].close \in LastPrices(rows)
        /\ klines.out[1].high = MaxOf(Column(rows, "price"))
        /\ klines.out[1].low = MinOf(Column(rows, "price"))
        /\ klines.out[1].volume = Sum(Column(rows, "quantity"))
        /\ klines.out[1].num_trades =
              rows[Len(rows)].last_trade_id - rows[1].first_trade_id + 1
        /\ IdsAscend(rows) => klines.out[1].num_trades = IdSpan(rows)

\* two rows of one window, prices and times differing, ids out of row order
C8_Witness ==
    /\ klines.status = "ok"
    /\ OneWindow(rows, every)
    /\ Len(rows) = 2
    /\ rows[1].price # rows[2].price
    /\ rows[1].transact_time < rows[2].transact_time
    /\ ~IdsAscend(rows)

============================================================================
